---- MODULE Spec2Model ----
(***************************************************************************)
(* Model of src/lib/utils.ts of twisted-brody (the part of                 *)
(* src/src/lib/config.ts from line 19 on): the batched image upload        *)
(* (uploadToImgBB, uploadImagesInBatches) and the thumbnail resolution     *)
(* with its two module-level caches (getVimeoThumbnail,                    *)
(* generateVideoThumbnail, preloadThumbnails, getVideoThumbnail,           *)
(* getVideoProvider).                                                      *)
(*                                                                         *)
(* JavaScript runs one synchronous block at a time.  Every action below is *)
(* one such block: the code from a call, or from the continuation of an    *)
(* await, or from an event handler, up to the next await or return.  In    *)
(* the thumbnail half a block that settles a promise includes the          *)
(* continuations that the settling starts, which run before any other      *)
(* event.                                                                  *)
(***************************************************************************)
EXTENDS Integers, Sequences, FiniteSets, TLC

VARIABLES
    \* ---- uploadImagesInBatches(files, batchSize, onProgress) ----
    files,          \* the File[] argument (a sequence; JS index j is files[j+1])
    batchSize,      \* the batchSize argument
    onProgress,     \* TRUE when a progress callback was passed
    i,              \* the loop variable of the for loop
    upPc,           \* position of uploadImagesInBatches
    task,           \* per global index: state of the batch.map closure
    batchPromises,  \* the closures of the current batch, in batch order
    results,        \* the results array
    events,         \* per global index: what an observer saw, in order
    \* ---- the thumbnail caches and the calls that use them ----
    thumbnailCache,       \* line 23: Map, as a function on the keys it holds
    vimeoThumbnailCache,  \* line 26
    pool,           \* the video URLs the callers have passed so far
    gen,            \* per caller: its generateVideoThumbnail call
    videos,         \* the argument of the preloadThumbnails call
    pre,            \* per element of videos: its videos.map closure
    prePc,          \* position of preloadThumbnails
    \* ---- getVideoProvider and getVideoEmbedUrl ----
    input,          \* the url argument of the latest call of either
    providerOut,    \* what getVideoProvider returned for input
    embedOut,       \* what getVideoEmbedUrl returned for input
    \* ---- compressImage(file, maxWidth, maxHeight, quality, maxSizeMB) ----
    cmp             \* the call: its arguments, its position, its promise

uploadVars ==
    <<files, batchSize, onProgress, i, upPc, task, batchPromises, results, events>>

thumbVars ==
    <<thumbnailCache, vimeoThumbnailCache, pool, gen, videos, pre, prePc>>

urlVars == <<input, providerOut, embedOut>>

compressVars == <<cmp>>

vars == <<uploadVars, thumbVars, urlVars, compressVars>>

----------------------------------------------------------------------------
(* Bounds of the model *)

MaxFiles == 3
MaxBatch == 3
MaxPauses == 3
MaxUrls == 2
MaxCalls == 2
MaxErrorEvents == 2

(* Program constants *)

MB == 1048576
MAX_FILE_SIZE == 10485760

Min(a, b) == IF a < b THEN a ELSE b
Max(a, b) == IF a > b THEN a ELSE b

----------------------------------------------------------------------------
(* Values *)

\* what a promise of the upload path settles with, or an array slot holds
Null == [kind |-> "null", n |-> 0, message |-> ""]

\* line 33 (the accents of the texts are left out in this module)
UPLOAD_FAILED == "Error al subir el archivo. Por favor, intentalo de nuevo."

\* what a throw statement or a rejected await raises inside uploadToImgBB
Thrown(isError, message) == [isError |-> isError, message |-> message]

\* lines 227-232: uploadToImgBB rejects with a new Error that carries the
\* message of what was raised, or UPLOAD_FAILED when that is no Error
Rejected(error) ==
    [kind |-> "rejected", n |-> 0,
     message |-> IF error.isError THEN error.message ELSE UPLOAD_FAILED]

NoFile == [present |-> FALSE, size |-> 0]
FileOf(s) == [present |-> TRUE, size |-> s]

\* sizes of the files handed in: at the 1MB threshold, at the 2MB threshold
\* of compressImage, above it, and above the ImgBB maximum
FileSizes == {MB, 2 * MB, 3 * MB, MAX_FILE_SIZE + MB}
Files == {NoFile} \cup {FileOf(s) : s \in FileSizes}

\* sizes a re-encoded JPEG can come out with
BlobSizes == {MB, MAX_FILE_SIZE + MB}

\* the hosted URL ImgBB answers with for the POST of the file at index j
HostedUrl(j) == [kind |-> "url", n |-> j, message |-> ""]

Indices == 0 .. (Len(files) - 1)

----------------------------------------------------------------------------
(* compressImage, as uploadToImgBB calls it (maxSizeMB = 2): what the      *)
(* promise can settle with.                                                *)

CompressImage(file, maxSizeMB) ==
    IF file.size <= maxSizeMB * MB
    THEN {[ok |-> TRUE, file |-> file]}
    ELSE {[ok |-> FALSE, file |-> NoFile]}
             \cup {[ok |-> TRUE, file |-> FileOf(s)] : s \in BlobSizes}

----------------------------------------------------------------------------
(* compressImage, callback by callback.  Its promise is settled by the     *)
(* first resolve or reject; the size of the picture in pixels and the      *)
(* resizing of lines 74-83 have no part in how often it encodes or         *)
(* settles and are left out.  A quality is in thousandths.                 *)

Pending == [state |-> "pending", file |-> NoFile, same |-> FALSE, type |-> ""]

\* resolve(file): the File object that was passed in
SameFile(file) == [state |-> "fulfilled", file |-> file, same |-> TRUE, type |-> ""]

\* resolve(new File([blob], file.name, { type: 'image/jpeg' }))
JpegFile(blob) ==
    [state |-> "fulfilled", file |-> blob, same |-> FALSE, type |-> "image/jpeg"]

\* reject(new Error(...))
Failed == [state |-> "rejected", file |-> NoFile, same |-> FALSE, type |-> ""]

\* pc: idle, reading (FileReader), decoding (Image), encoding (first toBlob),
\* retrying (second toBlob), over (no callback of the chain is left)
CompressIdle(file, quality, maxSizeMB) ==
    [pc |-> "idle", file |-> file, quality |-> quality, maxSizeMB |-> maxSizeMB,
     read |-> FALSE, encodes |-> <<>>, blob |-> NoFile, out |-> Pending,
     calls |-> 0, errorQueued |-> FALSE]

\* no call of compressImage by itself
CompressQuiet == cmp = CompressIdle(NoFile, 850, 2)

\* resolve or reject is called with out: only the first call settles the promise
Settle(c, out) ==
    [c EXCEPT !.pc = "over",
              !.calls = @ + 1,
              !.out = IF c.out.state = "pending" THEN out ELSE c.out]

\* lines 66-69: cleanup empties img.src; queues is whether the browser fires
\* an error event at the image for that
ImgCleanup(c, queues) == [c EXCEPT !.errorQueued = queues]

\* line 124: Math.max(0.5, quality * 0.7)
ReducedQuality(quality) == Max(500, (quality * 7) \div 10)

\* canvas.toBlob(callback, 'image/jpeg', quality), drawn from img
Encode(c, quality) ==
    [c EXCEPT !.encodes = Append(@, [quality |-> quality, from |-> "img"])]

\* lines 51-56 and 59-183: the executor of the promise
CompressStart(c) ==
    IF c.file.size <= c.maxSizeMB * MB
    THEN Settle(c, SameFile(c.file))
    ELSE [c EXCEPT !.pc = "reading", !.read = TRUE]

\* what the FileReader can end with
ReadOutcomes == {"error", "empty", "dataUrl"}

\* lines 61-175 and 178-180: reader.onload, reader.onerror
ReaderDone(c, r, queues) ==
    IF r = "error" THEN Settle(c, Failed)
    ELSE IF r = "empty" THEN Settle(ImgCleanup(c, queues), Failed)
    ELSE [c EXCEPT !.pc = "decoding"]

\* what the Image can end with: it does not load, it loads and there is no
\* 2d context, it loads and drawing throws, it loads and is drawn
DecodeOutcomes == {"error", "noContext", "drawThrows", "drawn"}

\* lines 71-159 and 161-164: img.onload, img.onerror
ImageDone(c, d, queues) ==
    IF d = "drawn"
    THEN [Encode(c, c.quality) EXCEPT !.pc = "encoding"]
    ELSE Settle(ImgCleanup(c, queues), Failed)

\* what toBlob can hand to its callback: null or a blob
Blobs == {NoFile} \cup {FileOf(s) : s \in BlobSizes}

\* (variant: the retry is repeated while the blob is too large)
FirstBlobRetryTwice(c, blob, ctx2, queues) ==
    IF ~blob.present THEN Settle(ImgCleanup(c, queues), Failed)
    ELSE IF blob.size > c.maxSizeMB * MB /\ ctx2
    THEN [Encode(Encode(c, ReducedQuality(c.quality)),
                 ReducedQuality(ReducedQuality(c.quality)))
             EXCEPT !.pc = "retrying", !.blob = blob]
    ELSE Settle(ImgCleanup(c, queues), JpegFile(blob))

\* lines 114-152: the callback of the first toBlob; ctx2 is whether the
\* second getContext gives a context
FirstBlob(c, blob, ctx2, queues) ==
    IF ~blob.present THEN Settle(ImgCleanup(c, queues), Failed)
    ELSE IF blob.size > c.maxSizeMB * MB /\ ctx2
    THEN [Encode(c, ReducedQuality(c.quality))
             EXCEPT !.pc = "retrying", !.blob = blob]
    ELSE Settle(ImgCleanup(c, queues), JpegFile(blob))

\* lines 131-137: the callback of the second toBlob
SecondBlob(c, smallerBlob, queues) ==
    Settle(ImgCleanup(c, queues),
           JpegFile(IF smallerBlob.present THEN smallerBlob ELSE c.blob))

\* lines 161-164: img.onerror for the error event that cleanup brought about
LateError(c, queues) == Settle(ImgCleanup(c, queues), Failed)

CompressCalled ==
    /\ cmp.pc = "idle"
    /\ cmp' = CompressStart(cmp)

ReaderEnds ==
    /\ cmp.pc = "reading"
    /\ \E r \in ReadOutcomes : \E queues \in BOOLEAN : cmp' = ReaderDone(cmp, r, queues)

ImageEnds ==
    /\ cmp.pc = "decoding"
    /\ \E d \in DecodeOutcomes : \E queues \in BOOLEAN : cmp' = ImageDone(cmp, d, queues)

FirstBlobReady ==
    /\ cmp.pc = "encoding"
    /\ \E blob \in Blobs : \E ctx2, queues \in BOOLEAN :
          cmp' = FirstBlob(cmp, blob, ctx2, queues)

SecondBlobReady ==
    /\ cmp.pc = "retrying"
    /\ \E smallerBlob \in Blobs : \E queues \in BOOLEAN :
          cmp' = SecondBlob(cmp, smallerBlob, queues)

\* the error events of one image are MaxErrorEvents at most
ImageErrorAfterCleanup ==
    /\ cmp.pc = "over"
    /\ cmp.errorQueued
    /\ cmp.calls <= MaxErrorEvents
    /\ \E queues \in BOOLEAN : cmp' = LateError(cmp, queues)

----------------------------------------------------------------------------
(* uploadToImgBB.  A closure of the batch is                                *)
(*   idle      not called yet                                               *)
(*   compress  inside uploadToImgBB, awaiting compressImage                 *)
(*   post      inside uploadToImgBB, POST issued, awaiting the response     *)
(*   settled   uploadToImgBB's promise settled with out, closure to resume  *)
(*   ok, fail  the closure returned a URL, or null                          *)
(*   threw     the closure's promise rejected                               *)

\* out is what uploadToImgBB's promise settled with, ret what the closure returned
IdleTask == [pc |-> "idle", file |-> NoFile, out |-> Null, ret |-> Null]
Settled(out) == [pc |-> "settled", file |-> NoFile, out |-> out, ret |-> Null]
Awaiting(pc, file) == [pc |-> pc, file |-> file, out |-> Null, ret |-> Null]

\* (variant: the file is posted whatever its size)
CheckSizeAndPostNoLimit(fileToUpload) == Awaiting("post", fileToUpload)

\* lines 204-215: the size check and the POST
CheckSizeAndPost(fileToUpload) ==
    IF fileToUpload.size > MAX_FILE_SIZE
    THEN Settled(Rejected(Thrown(TRUE, "El archivo es demasiado grande. Maximo 10MB")))
    ELSE Awaiting("post", fileToUpload)

\* lines 189-202: up to the first await
UploadToImgBB(file) ==
    IF ~file.present
    THEN Settled(Rejected(Thrown(TRUE, "No se ha seleccionado ningun archivo")))
    ELSE IF file.size > MB
         THEN Awaiting("compress", file)
         ELSE CheckSizeAndPost(file)

\* what fetch and response.json() can give: fetch rejects (with a TypeError),
\* a status that is not OK, a body without data.url, a body with it
Responses == {"reject", "notok", "nourl", "url"}

\* lines 212-226: the response handling
HandleResponse(j, r) ==
    IF r = "url" THEN Settled(HostedUrl(j))
    ELSE IF r = "reject" THEN Settled(Rejected(Thrown(TRUE, "Failed to fetch")))
    ELSE IF r = "notok"
    THEN Settled(Rejected(Thrown(TRUE, "Error 500: Internal Server Error")))
    ELSE Settled(Rejected(Thrown(TRUE, "No se recibio la URL de la imagen")))

----------------------------------------------------------------------------
(* uploadImagesInBatches *)

\* Array.prototype.slice's clamping of a start or end index
SliceIndex(len, k) == IF k < 0 THEN Max(len + k, 0) ELSE Min(k, len)

\* positions (0-based) of files.slice(idx, idx + batchSize)
BatchPositions(idx) ==
    SliceIndex(Len(files), idx) .. (SliceIndex(Len(files), idx + batchSize) - 1)

\* globalIndex of the file at position p of the batch that starts at idx
GlobalIndex(idx, p) == idx + (p - SliceIndex(Len(files), idx))

Progress(pct, status) == <<"progress", pct, status>>
UploadCall == <<"uploadToImgBB">>

Report(ev, pct, status) ==
    IF onProgress THEN Append(ev, Progress(pct, status)) ELSE ev

\* (variant: the upload is started before the callback is told)
ClosureStartLate(ev) ==
    IF onProgress
    THEN Append(Append(ev, UploadCall), Progress(0, "uploading"))
    ELSE Append(ev, UploadCall)

\* lines 249-250: what the closure does before its await
ClosureStart(ev) == Append(Report(ev, 0, "uploading"), UploadCall)

\* (variant: no catch around the await, a failed upload escapes the closure)
ClosureResumeNoCatch(t) ==
    IF t.out.kind # "rejected"
    THEN [t EXCEPT !.pc = "ok", !.ret = t.out]
    ELSE [t EXCEPT !.pc = "threw", !.ret = Null]

\* lines 251-257: the closure after uploadToImgBB settled; its catch logs
\* the error and lets go of it
ClosureResume(t) ==
    IF t.out.kind # "rejected"
    THEN [t EXCEPT !.pc = "ok", !.ret = t.out]
    ELSE [t EXCEPT !.pc = "fail", !.ret = Null, !.out.message = ""]

ResumeReport(ev, t) ==
    IF t.out.kind # "rejected"
    THEN Report(ev, 100, "completed")
    ELSE Report(ev, 0, "error")

\* lines 245-258: batch.map runs every closure up to its first await
StartBatch(idx) ==
    LET pos == BatchPositions(idx)
        PosOf(g) == CHOOSE p \in pos : GlobalIndex(idx, p) = g
        started == {g \in Indices : \E p \in pos : GlobalIndex(idx, p) = g}
    IN  /\ task' = [g \in Indices |->
                      IF g \in started
                      THEN UploadToImgBB(files[PosOf(g) + 1])
                      ELSE task[g]]
        /\ events' = [g \in Indices |->
                      IF g \in started THEN ClosureStart(events[g]) ELSE events[g]]
        /\ batchPromises' =
              [b \in 1 .. Cardinality(pos) |-> idx + (b - 1)]

\* the loop test of line 244, entered with the loop variable at idx
LoopTest(idx) ==
    IF idx < Len(files)
    THEN /\ StartBatch(idx)
         /\ upPc' = "await"
    ELSE /\ upPc' = "done"
         /\ UNCHANGED <<task, events, batchPromises>>

\* the call: lines 241-244
Call ==
    /\ upPc = "idle"
    /\ results' = [g \in Indices |-> Null]
    /\ i' = 0
    /\ LoopTest(0)
    /\ UNCHANGED <<files, batchSize, onProgress>>

CompressSettles(g) ==
    /\ task[g].pc = "compress"
    /\ \E o \in CompressImage(task[g].file, 2) :
         LET fileToUpload == IF o.ok THEN o.file ELSE task[g].file
         IN  task' = [task EXCEPT ![g] = CheckSizeAndPost(fileToUpload)]
    /\ UNCHANGED <<files, batchSize, onProgress, i, upPc, batchPromises, results, events>>

FetchSettles(g) ==
    /\ task[g].pc = "post"
    /\ \E r \in Responses :
         task' = [task EXCEPT ![g] = HandleResponse(g, r)]
    /\ UNCHANGED <<files, batchSize, onProgress, i, upPc, batchPromises, results, events>>

ClosureResumes(g) ==
    /\ task[g].pc = "settled"
    /\ task' = [task EXCEPT ![g] = ClosureResume(task[g])]
    /\ events' = [events EXCEPT ![g] = ResumeReport(events[g], task[g])]
    /\ UNCHANGED <<files, batchSize, onProgress, i, upPc, batchPromises, results>>

\* Promise.all(batchPromises): fulfilled once every closure has returned,
\* rejected as soon as one has thrown
BatchPending == {b \in DOMAIN batchPromises : batchPromises[b] \in Indices}

\* (variant: the loop goes on as soon as one closure of the batch returned)
AnyFulfilled ==
    \E b \in BatchPending : task[batchPromises[b]].pc \in {"ok", "fail"}

AllFulfilled ==
    \A b \in BatchPending : task[batchPromises[b]].pc \in {"ok", "fail"}

SomeRejected ==
    \E b \in BatchPending : task[batchPromises[b]].pc = "threw"

\* lines 260-269: after Promise.all
BatchSettles ==
    /\ upPc = "await"
    /\ AllFulfilled \/ SomeRejected
    /\ IF SomeRejected
       THEN /\ upPc' = "rejected"
            /\ UNCHANGED <<i, results>>
       ELSE /\ results' = [g \in Indices |->
                            IF \E b \in BatchPending : i + (b - 1) = g
                            THEN task[batchPromises[CHOOSE b \in BatchPending :
                                                      i + (b - 1) = g]].ret
                            ELSE results[g]]
            /\ IF i + batchSize < Len(files)
               THEN upPc' = "pause" /\ i' = i
               ELSE upPc' = "done" /\ i' = i + batchSize
    /\ UNCHANGED <<files, batchSize, onProgress, task, batchPromises, events>>

\* lines 267 and 244: the 100 ms timer fires, i += batchSize, next iteration
PauseElapses ==
    /\ upPc = "pause"
    /\ i + batchSize >= 0 - MaxPauses
    /\ i' = i + batchSize
    /\ LoopTest(i + batchSize)
    /\ UNCHANGED <<files, batchSize, onProgress, results>>

BatchSizes == (0 - 1) .. MaxBatch

FileLists == UNION {[1 .. n -> Files] : n \in 0 .. MaxFiles}

\* nothing of the thumbnail half is in use
ThumbQuiet ==
    /\ thumbnailCache = <<>>
    /\ vimeoThumbnailCache = <<>>
    /\ pool = {}
    /\ gen = <<>>
    /\ videos = <<>>
    /\ pre = <<>>
    /\ prePc = "idle"

\* embedOut before getVideoEmbedUrl has been called on input
UrlQuietEmbed == [kind |-> "unasked", provider |-> "null", embedUrl |-> ""]

\* neither getVideoProvider nor getVideoEmbedUrl has been called
UrlQuiet ==
    /\ input = ""
    /\ providerOut = "unasked"
    /\ embedOut = UrlQuietEmbed

\* 1 when a caller has passed a url to getVideoProvider or getVideoEmbedUrl
UrlCalls == IF providerOut = "unasked" /\ embedOut = UrlQuietEmbed THEN 0 ELSE 1

UploadInit ==
    /\ ThumbQuiet
    /\ UrlQuiet
    /\ CompressQuiet
    /\ files \in FileLists
    /\ batchSize \in BatchSizes
    /\ onProgress \in BOOLEAN
    /\ i = 0
    /\ upPc = "idle"
    /\ task = [g \in Indices |-> IdleTask]
    /\ batchPromises = <<>>
    /\ results = <<>>
    /\ events = [g \in Indices |-> <<>>]

UploadNext ==
    /\ \/ Call
       \/ \E g \in Indices : CompressSettles(g)
       \/ \E g \in Indices : FetchSettles(g)
       \/ \E g \in Indices : ClosureResumes(g)
       \/ BatchSettles
       \/ PauseElapses
    /\ UNCHANGED <<thumbVars, urlVars, compressVars>>

UploadSpec == UploadInit /\ [][UploadNext]_vars

\* the claims about termination assume that every compression, every POST
\* and the 100 ms timer of line 267 end, and the event loop runs every
\* continuation that is ready
UploadLiveSpec ==
    /\ UploadSpec
    /\ \A g \in 0 .. (MaxFiles - 1) :
          /\ WF_vars(/\ g \in Indices
                     /\ CompressSettles(g)
                     /\ UNCHANGED <<thumbVars, urlVars, compressVars>>)
          /\ WF_vars(/\ g \in Indices
                     /\ FetchSettles(g)
                     /\ UNCHANGED <<thumbVars, urlVars, compressVars>>)
          /\ WF_vars(/\ g \in Indices
                     /\ ClosureResumes(g)
                     /\ UNCHANGED <<thumbVars, urlVars, compressVars>>)
    /\ WF_vars(BatchSettles /\ UNCHANGED <<thumbVars, urlVars, compressVars>>)
    /\ WF_vars(PauseElapses /\ UNCHANGED <<thumbVars, urlVars, compressVars>>)

----------------------------------------------------------------------------
(* Strings.  A URL or a thumbnail is the JavaScript string itself; the     *)
(* operators below are the String methods the code uses, computed on the   *)
(* characters.                                                             *)

Char(s, k) == SubSeq(s, k, k)
From(s, k) == SubSeq(s, k, Len(s))
Upto(s, k) == SubSeq(s, 1, k)

\* the first position >= from at which t occurs in s, 0 when there is none
IndexFrom(s, t, from) ==
    LET at == {k \in from .. (Len(s) - Len(t) + 1) :
                  SubSeq(s, k, k + Len(t) - 1) = t}
    IN  IF at = {} THEN 0 ELSE CHOOSE k \in at : \A m \in at : k <= m

IndexOf(s, t) == IndexFrom(s, t, 1)

\* String.prototype.includes
Includes(s, t) == IndexOf(s, t) # 0

StartsWith(s, t) == Len(t) <= Len(s) /\ Upto(s, Len(t)) = t

\* String.prototype.replace(a, b) with a string pattern: the first occurrence
Replace(s, a, b) ==
    LET k == IndexOf(s, a)
    IN  IF k = 0 THEN s ELSE Upto(s, k - 1) \o b \o From(s, k + Len(a))

\* s.split(sep)[0]
SplitFirst(s, sep) ==
    LET k == IndexOf(s, sep) IN IF k = 0 THEN s ELSE Upto(s, k - 1)

\* s.split(sep), for a one-character sep
RECURSIVE Split(_, _)
Split(s, sep) ==
    LET k == IndexOf(s, sep)
    IN  IF k = 0 THEN <<s>> ELSE <<Upto(s, k - 1)>> \o Split(From(s, k + 1), sep)

Digits == {"0", "1", "2", "3", "4", "5", "6", "7", "8", "9"}
Letters ==
    {"a", "b", "c", "d", "e", "f", "g", "h", "i", "j", "k", "l", "m", "n", "o",
     "p", "q", "r", "s", "t", "u", "v", "w", "x", "y", "z", "A", "B", "C", "D",
     "E", "F", "G", "H", "I", "J", "K", "L", "M", "N", "O", "P", "Q", "R", "S",
     "T", "U", "V", "W", "X", "Y", "Z"}

\* the length of the longest run of characters of class at the start of s
RECURSIVE RunLength(_, _)
RunLength(s, class) ==
    IF Len(s) > 0 /\ Char(s, 1) \in class
    THEN 1 + RunLength(From(s, 2), class)
    ELSE 0

\* the smallest positive number of a set of positions, 0 when none is positive
FirstOf(ks) ==
    LET pos == {k \in ks : k > 0}
    IN  IF pos = {} THEN 0 ELSE CHOOSE k \in pos : \A m \in pos : k <= m

----------------------------------------------------------------------------
(* new URL(url), as far as the code reads the result: it throws unless the *)
(* string is an absolute http(s) URL with a host, and gives origin,        *)
(* hostname, pathname and search.                                          *)

Unparsable ==
    [ok |-> FALSE, origin |-> "", hostname |-> "", pathname |-> "", search |-> ""]

\* the path and the query of what follows the host
ParsePath(scheme, hostname, noFragment) ==
    IF hostname = "" \/ Includes(hostname, " ")
    THEN Unparsable
    ELSE [ok |-> TRUE, origin |-> scheme \o hostname, hostname |-> hostname,
          pathname |-> IF StartsWith(noFragment, "/")
                       THEN SplitFirst(noFragment, "?")
                       ELSE "/",
          search |-> IF IndexOf(noFragment, "?") \in {0, Len(noFragment)}
                     THEN ""
                     ELSE From(noFragment, IndexOf(noFragment, "?"))]

\* the host ends at position hostEnd - 1 of rest, or with rest when hostEnd = 0
ParseHost(scheme, rest, hostEnd) ==
    IF hostEnd = 0
    THEN ParsePath(scheme, rest, "")
    ELSE ParsePath(scheme, Upto(rest, hostEnd - 1),
                   SplitFirst(From(rest, hostEnd), "#"))

ParseAfter(scheme, rest) ==
    ParseHost(scheme, rest,
              FirstOf({IndexOf(rest, "/"), IndexOf(rest, "?"), IndexOf(rest, "#")}))

ParseUrl(url) ==
    IF StartsWith(url, "https://") THEN ParseAfter("https://", From(url, 9))
    ELSE IF StartsWith(url, "http://") THEN ParseAfter("http://", From(url, 8))
    ELSE Unparsable

\* the name=value pairs of a search string
SearchPairs(search) ==
    IF search = "" THEN <<>> ELSE Split(From(search, 2), "&")

PairKey(pair) == SplitFirst(pair, "=")
PairValue(pair) ==
    LET k == IndexOf(pair, "=") IN IF k = 0 THEN "" ELSE From(pair, k + 1)

\* URLSearchParams.has
SearchHas(search, key) ==
    \E k \in DOMAIN SearchPairs(search) : PairKey(SearchPairs(search)[k]) = key

\* URLSearchParams.get(key) || '': the first value under the key
SearchGet(search, key) ==
    LET pairs == SearchPairs(search)
        hits == {k \in DOMAIN pairs : PairKey(pairs[k]) = key}
    IN  IF hits = {} THEN ""
        ELSE PairValue(pairs[CHOOSE k \in hits : \A m \in hits : k <= m])

Providers ==
    {"youtube", "vimeo", "xvideos", "pornhub", "gdrive", "dropbox", "terabox",
     "telegram", "catbox"}

\* the null that getVideoProvider returns
NoProvider == "null"

\* lines 549-576: the tests on urlObj.hostname, in the order of the code
ProviderOfHost(host) ==
    IF Includes(host, "youtube.com") \/ Includes(host, "youtu.be") THEN "youtube"
    ELSE IF Includes(host, "vimeo.com") THEN "vimeo"
    ELSE IF Includes(host, "xvideos.com") THEN "xvideos"
    ELSE IF Includes(host, "pornhub.com") THEN "pornhub"
    ELSE IF Includes(host, "drive.google.com") THEN "gdrive"
    ELSE IF Includes(host, "dropbox.com") THEN "dropbox"
    ELSE IF Includes(host, "terabox.com") THEN "terabox"
    ELSE IF Includes(host, "t.me") THEN "telegram"
    ELSE IF Includes(host, "catbox.moe") THEN "catbox"
    ELSE NoProvider

\* lines 547-582, urlObj being new URL(url); a throw ends in null
ProviderOfUrl(urlObj) ==
    IF ~urlObj.ok THEN NoProvider ELSE ProviderOfHost(urlObj.hostname)

\* lines 540-583
getVideoProvider(url) ==
    IF url = "" THEN NoProvider ELSE ProviderOfUrl(ParseUrl(url))

----------------------------------------------------------------------------
(* Thumbnails *)

\* line 29
DEFAULT_THUMBNAIL ==
    "https://images.unsplash.com/photo-1611162616475-46b635cb6868?w=1920&auto=format&fit=crop&q=100&ixlib=rb-4.0.3"

\* null and undefined, where a thumbnail string is expected
NoThumb == "<null>"

\* JavaScript truthiness of string | null | undefined
Truthy(t) == t # NoThumb /\ t # ""

\* Map.has, Map.get, Map.set on a cache kept as a function on the keys it holds
MapHas(cache, key) == key \in DOMAIN cache
MapGet(cache, key) == IF key \in DOMAIN cache THEN cache[key] ELSE NoThumb
MapSet(cache, key, value) ==
    [k \in DOMAIN cache \cup {key} |-> IF k = key THEN value ELSE cache[k]]

\* match[1] of s.match(/\/d\/([^/]+)/), "" when there is no match
DriveIdMatch(s) ==
    LET at == {k \in 1 .. (Len(s) - 3) :
                  SubSeq(s, k, k + 2) = "/d/" /\ Char(s, k + 3) # "/"}
    IN  IF at = {} THEN ""
        ELSE SplitFirst(From(s, (CHOOSE k \in at : \A m \in at : k <= m) + 3), "/")

\* match[1] of s.match(/video[._]([^/]+)/), "" when there is no match
XVideosIdMatch(s) ==
    LET at == {k \in 1 .. (Len(s) - 6) :
                  /\ SubSeq(s, k, k + 4) = "video"
                  /\ Char(s, k + 5) \in {".", "_"}
                  /\ Char(s, k + 6) # "/"}
    IN  IF at = {} THEN ""
        ELSE SplitFirst(From(s, (CHOOSE k \in at : \A m \in at : k <= m) + 6), "/")

\* videoId.charAt(k)
CharAt(s, k) == IF k + 1 <= Len(s) THEN Char(s, k + 1) ELSE ""

\* lines 730-739: the thumbnail of a YouTube videoId, null for an empty one
YouTubeThumbnail(videoId) ==
    IF videoId = "" THEN NoThumb
    ELSE "https://img.youtube.com/vi/" \o videoId \o "/maxresdefault.jpg"

\* lines 752-756: the thumbnail of a Google Drive file id
DriveThumbnail(id) ==
    IF id = "" THEN NoThumb
    ELSE "https://drive.google.com/thumbnail?id=" \o id \o "&sz=w2000"

\* lines 761-765: the thumbnail of a PornHub viewkey
PornHubThumbnail(viewkey) ==
    IF viewkey = "" THEN NoThumb
    ELSE "https://di.phncdn.com/videos/" \o viewkey
             \o "/(m=eaAaGwObaaaa)(mh=xc_qR95oUCHcYYrV)16.jpg"

\* lines 770-775: the thumbnail of an XVideos video id
XVideosThumbnail(videoId) ==
    IF videoId = "" THEN NoThumb
    ELSE "https://img-hw.xvideos-cdn.com/videos/thumbs169/"
             \o CharAt(videoId, 0) \o "/" \o CharAt(videoId, 1) \o "/"
             \o CharAt(videoId, 2) \o "/" \o videoId \o "/" \o videoId \o "_169.jpg"

\* a cache entry, null when it is missing or empty
CachedOrNull(cachedThumbnail) ==
    IF Truthy(cachedThumbnail) THEN cachedThumbnail ELSE NoThumb

\* lines 728-786, on the host, path and query of new URL(url)
ThumbnailOfHost(url, host, pathname, search, tCache, vCache) ==
    IF Includes(host, "youtu.be")
    THEN YouTubeThumbnail(From(pathname, 2))
    ELSE IF Includes(host, "youtube.com")
    THEN YouTubeThumbnail(IF SearchHas(search, "v")
                          THEN SearchGet(search, "v")
                          ELSE "")
    ELSE IF Includes(host, "vimeo.com")
    THEN CachedOrNull(MapGet(vCache, url))
    ELSE IF Includes(host, "drive.google.com")
    THEN DriveThumbnail(DriveIdMatch(url))
    ELSE IF Includes(host, "pornhub.com")
    THEN PornHubThumbnail(SearchGet(search, "viewkey"))
    ELSE IF Includes(host, "xvideos.com")
    THEN XVideosThumbnail(XVideosIdMatch(pathname))
    ELSE IF Includes(host, "dropbox.com") \/ Includes(host, "catbox.moe")
    THEN CachedOrNull(MapGet(tCache, url))
    ELSE DEFAULT_THUMBNAIL

\* lines 725-791, urlObj being new URL(url); the catch of line 789 turns
\* every throw into null
ThumbnailOfUrl(url, urlObj, tCache, vCache) ==
    IF ~urlObj.ok
    THEN NoThumb
    ELSE ThumbnailOfHost(url, urlObj.hostname, urlObj.pathname, urlObj.search,
                         tCache, vCache)

\* lines 719-792
getVideoThumbnail(url, tCache, vCache) ==
    IF url = "" THEN NoThumb
    ELSE ThumbnailOfUrl(url, ParseUrl(url), tCache, vCache)

----------------------------------------------------------------------------
(* getVimeoThumbnail *)

\* url.match(/vimeo\.com\/(\d+)(?:\/([a-zA-Z0-9]+))?/): whether it matches,
\* match[1] and match[2] ("" for undefined)
VimeoMatch(url) ==
    LET at == {k \in 1 .. (Len(url) - 10) :
                  /\ SubSeq(url, k, k + 9) = "vimeo.com/"
                  /\ Char(url, k + 10) \in Digits}
        k0 == CHOOSE k \in at : \A m \in at : k <= m
        afterSlash == From(url, k0 + 10)
        n == RunLength(afterSlash, Digits)
        afterId == From(afterSlash, n + 1)
        h == IF StartsWith(afterId, "/")
             THEN RunLength(From(afterId, 2), Digits \cup Letters)
             ELSE 0
    IN  IF at = {}
        THEN [ok |-> FALSE, videoId |-> "", hash |-> ""]
        ELSE [ok |-> TRUE, videoId |-> Upto(afterSlash, n),
              hash |-> SubSeq(afterId, 2, h + 1)]

\* lines 383-399: the request getVimeoThumbnail sends
VimeoApiUrl(m) ==
    IF m.hash # ""
    THEN "https://vimeo.com/api/oembed.json?url=https://vimeo.com/"
             \o m.videoId \o "/" \o m.hash
    ELSE "https://vimeo.com/api/v2/video/" \o m.videoId \o ".json"

\* what the request can end with: fetch rejects, the status is not OK, the
\* JSON has no thumbnail field, or it has one (thumbnail_url, thumbnail_large)
VimeoFailures == {"reject", "notok", "nothumb"}
VimeoThumbnails ==
    {"https://i.vimeocdn.com/video/1_640.jpg",
     "https://i.vimeocdn.com/video/2_295x166.jpg"}
VimeoResponses == VimeoFailures \cup VimeoThumbnails

(* A call in flight (of generateVideoThumbnail, or a videos.map closure of  *)
(* preloadThumbnails) is a record:                                          *)
(*   pc     where it stands                                                 *)
(*   url    its video URL                                                   *)
(*   val    the thumbnail it holds: the value awaited, then the one returned*)
(*   req    the network request it waits for, "" when none                  *)
(*   how    how the value it holds came about                               *)
(*   timer, inDom, src, seeking   the off-screen video element of lines     *)
(*          441-503 and its timer: whether it is in the document, whether   *)
(*          it has a src (and so a resource that can bring events), whether *)
(*          a seek is under way                                             *)
(*   late   a handler of the element or the timer callback ran after the    *)
(*          call had returned                                               *)
Idle ==
    [pc |-> "idle", url |-> "", val |-> NoThumb, req |-> "", how |-> "",
     timer |-> "none", inDom |-> FALSE, src |-> FALSE, seeking |-> FALSE,
     late |-> FALSE]

At(pc, url, val, req, how) ==
    [Idle EXCEPT !.pc = pc, !.url = url, !.val = val, !.req = req, !.how = how]

\* (variant: the Vimeo cache is not consulted)
VimeoStartNoCache(c, url, vCache) ==
    LET match == VimeoMatch(url)
    IN  IF ~match.ok
        THEN [c EXCEPT !.pc = "vimeoRet", !.url = url, !.val = NoThumb,
                       !.how = "vimeoInvalid"]
        ELSE [c EXCEPT !.pc = "vimeoFetch", !.url = url, !.val = NoThumb,
                       !.req = VimeoApiUrl(match), !.how = ""]

\* lines 366-399: getVimeoThumbnail up to its first await, or to its return
VimeoStart(c, url, vCache) ==
    LET cachedThumbnail == MapGet(vCache, url)
        match == VimeoMatch(url)
    IN  IF Truthy(cachedThumbnail)
        THEN [c EXCEPT !.pc = "vimeoRet", !.url = url, !.val = cachedThumbnail,
                       !.how = "vimeoCached"]
        ELSE IF ~match.ok
        THEN [c EXCEPT !.pc = "vimeoRet", !.url = url, !.val = NoThumb,
                       !.how = "vimeoInvalid"]
        ELSE [c EXCEPT !.pc = "vimeoFetch", !.url = url, !.val = NoThumb,
                       !.req = VimeoApiUrl(match), !.how = ""]

\* (variant: a failed request caches the default thumbnail)
VimeoFinishCachingFailure(c, r, vCache) ==
    IF r \in VimeoFailures
    THEN [call |-> [c EXCEPT !.pc = "vimeoRet", !.val = NoThumb, !.req = "",
                             !.how = "vimeoFailed"],
          vCache |-> MapSet(vCache, c.url, DEFAULT_THUMBNAIL)]
    ELSE [call |-> [c EXCEPT !.pc = "vimeoRet", !.val = Replace(r, "_640", "_1920"),
                             !.req = "", !.how = "vimeoFetched"],
          vCache |-> MapSet(vCache, c.url, Replace(r, "_640", "_1920"))]

\* lines 385-414: getVimeoThumbnail after the response r
VimeoFinish(c, r, vCache) ==
    IF r \in VimeoFailures
    THEN [call |-> [c EXCEPT !.pc = "vimeoRet", !.val = NoThumb, !.req = "",
                             !.how = "vimeoFailed"],
          vCache |-> vCache]
    ELSE [call |-> [c EXCEPT !.pc = "vimeoRet", !.val = Replace(r, "_640", "_1920"),
                             !.req = "", !.how = "vimeoFetched"],
          vCache |-> MapSet(vCache, c.url, Replace(r, "_640", "_1920"))]

----------------------------------------------------------------------------
(* generateVideoThumbnail *)

\* lines 430-438 (and 665-673): the direct Dropbox URL; ok is FALSE when
\* new URL(directUrl) throws
FinalUrl(urlObj) ==
    IF ~urlObj.ok
    THEN [ok |-> FALSE, url |-> ""]
    ELSE [ok |-> TRUE,
          url |-> urlObj.origin \o urlObj.pathname
                      \o (IF SearchGet(urlObj.search, "rlkey") # ""
                          THEN "?rlkey=" \o SearchGet(urlObj.search, "rlkey")
                                   \o "&raw=1"
                          ELSE "?raw=1")]

DropboxDirect(videoUrl) ==
    FinalUrl(
        ParseUrl(
            SplitFirst(
                Replace(
                    Replace(
                        Replace(videoUrl, "www.dropbox.com", "dl.dropboxusercontent.com"),
                        "?dl=0", ""),
                    "?dl=1", ""),
                "&")))

\* a call that has returned val; its video element, if any, stays as it is
Returned(c, val, how) ==
    [c EXCEPT !.pc = "done", !.val = val, !.req = "", !.how = how]

\* lines 425-504: the video element is created and the promise awaited
VideoStart(c, url, finalUrl) ==
    [Idle EXCEPT !.pc = "video", !.url = url, !.req = finalUrl,
                 !.timer = "armed", !.inDom = TRUE, !.src = TRUE]

\* lines 532-537: what getVideoThumbnail gave is cached unless it is null
CacheDerived(url, thumbnail, tCache) ==
    IF Truthy(thumbnail)
    THEN [call |-> Returned([Idle EXCEPT !.url = url], thumbnail, "derived"),
          tCache |-> MapSet(tCache, url, thumbnail)]
    ELSE [call |-> Returned([Idle EXCEPT !.url = url], DEFAULT_THUMBNAIL,
                            "underivable"),
          tCache |-> tCache]

\* lines 531-537: the providers without a path of their own
GenOther(c, url, tCache, vCache) ==
    CacheDerived(url, getVideoThumbnail(url, tCache, vCache), tCache)

\* (variant: no try/catch around lines 517-522)
GenVimeoResumeNoCatch(c, tCache) ==
    IF c.pc # "vimeoRet"
    THEN [call |-> c, tCache |-> tCache]
    ELSE IF Truthy(c.val)
    THEN [call |-> Returned(c, c.val, c.how), tCache |-> MapSet(tCache, c.url, c.val)]
    ELSE [call |-> [c EXCEPT !.pc = "rejected"], tCache |-> tCache]

\* lines 517-527: after await getVimeoThumbnail; a call of getVimeoThumbnail
\* that has returned hands its value over in the same turn of the event loop
GenVimeoResume(c, tCache) ==
    IF c.pc # "vimeoRet"
    THEN [call |-> c, tCache |-> tCache]
    ELSE IF Truthy(c.val)
    THEN [call |-> Returned(c, c.val, c.how), tCache |-> MapSet(tCache, c.url, c.val)]
    ELSE [call |-> Returned(c, DEFAULT_THUMBNAIL, c.how),
          tCache |-> MapSet(tCache, c.url, DEFAULT_THUMBNAIL)]

\* lines 417-448 and 515-517: the call, up to its first await or its return
GenCall(t, url, provider) ==
    /\ gen[t].pc = "idle"
    /\ \A earlier \in 1 .. (t - 1) : gen[earlier].pc # "idle"
    /\ t + Len(videos) + UrlCalls <= MaxCalls
    /\ Cardinality(pool \cup {url}) <= MaxUrls
    /\ pool' = pool \cup {url}
    /\ LET cachedThumbnail == MapGet(thumbnailCache, url)
           direct == DropboxDirect(url)
           other == GenOther(gen[t], url, thumbnailCache, vimeoThumbnailCache)
           vimeo == GenVimeoResume(VimeoStart(Idle, url, vimeoThumbnailCache),
                                   thumbnailCache)
       IN  IF Truthy(cachedThumbnail)
           THEN /\ gen' = [gen EXCEPT ![t] =
                              Returned([Idle EXCEPT !.url = url], cachedThumbnail,
                                       "cache")]
                /\ UNCHANGED thumbnailCache
           ELSE IF provider \in {"dropbox", "catbox"}
           THEN IF provider = "dropbox" /\ ~direct.ok
                THEN /\ gen' = [gen EXCEPT ![t] =
                                  Returned([Idle EXCEPT !.url = url],
                                           DEFAULT_THUMBNAIL, "badUrl")]
                     /\ thumbnailCache' = MapSet(thumbnailCache, url, DEFAULT_THUMBNAIL)
                ELSE /\ gen' = [gen EXCEPT ![t] =
                                  VideoStart(gen[t], url,
                                             IF provider = "dropbox"
                                             THEN direct.url ELSE url)]
                     /\ UNCHANGED thumbnailCache
           ELSE IF provider = "vimeo"
           THEN /\ gen' = [gen EXCEPT ![t] = vimeo.call]
                /\ thumbnailCache' = vimeo.tCache
           ELSE /\ gen' = [gen EXCEPT ![t] = other.call]
                /\ thumbnailCache' = other.tCache
    /\ UNCHANGED <<vimeoThumbnailCache, videos, pre, prePc>>

\* (variant: cleanup leaves the src of the element and does not reload it)
CleanupKeepsSource(c) ==
    [c EXCEPT !.timer = IF c.timer = "armed" THEN "cleared" ELSE c.timer,
              !.inDom = FALSE]

\* lines 457-464: cleanup().  video.load() on the element without src ends
\* the seek under way and drops the events of the element not yet handled
Cleanup(c) ==
    [c EXCEPT !.timer = IF c.timer = "armed" THEN "cleared" ELSE c.timer,
              !.inDom = FALSE,
              !.src = FALSE,
              !.seeking = FALSE]

\* resolve(value) of thumbnailPromise: the first call settles it; a handler
\* that gets here when the call has returned has run late
Resolve(c, value, how) ==
    IF c.pc = "video"
    THEN [c EXCEPT !.pc = "videoSettled", !.val = value, !.how = how]
    ELSE [c EXCEPT !.late = TRUE]

\* lines 504-506: once thumbnailPromise has a value the call goes on in the
\* same turn of the event loop, before any other event is handled
GenVideoResume(c, tCache) ==
    IF c.pc = "videoSettled"
    THEN [call |-> Returned(c, c.val, c.how), tCache |-> MapSet(tCache, c.url, c.val)]
    ELSE [call |-> c, tCache |-> tCache]

\* lines 466-470: video.onerror
VideoError(t) ==
    /\ gen[t].src
    /\ LET res == GenVideoResume(Resolve(Cleanup(gen[t]), DEFAULT_THUMBNAIL,
                                         "videoError"),
                                 thumbnailCache)
       IN  /\ gen' = [gen EXCEPT ![t] = res.call]
           /\ thumbnailCache' = res.tCache
    /\ UNCHANGED <<vimeoThumbnailCache, pool, videos, pre, prePc>>

\* lines 472-477: video.onloadedmetadata, up to its await
LoadedMetadata(t) ==
    /\ gen[t].src
    /\ ~gen[t].seeking
    /\ gen' = [gen EXCEPT ![t].seeking = TRUE,
                          ![t].late = gen[t].late \/ gen[t].pc # "video"]
    /\ UNCHANGED <<thumbnailCache, vimeoThumbnailCache, pool, videos, pre, prePc>>

\* what drawing and exporting the frame can end with
FrameOutcomes == {"frame", "noContext", "exportThrows"}
FrameDataUrl == "data:image/jpeg;base64,FRAME"

\* lines 479-499: after the seek
AfterSeek(c, o) ==
    IF o = "frame"
    THEN Resolve(Cleanup(c), FrameDataUrl, "frame")
    ELSE Resolve(Cleanup(c), DEFAULT_THUMBNAIL, "canvasError")

\* lines 476-499: video.onseeked and the rest of the loadedmetadata handler
Seeked(t) ==
    /\ gen[t].seeking
    /\ \E o \in FrameOutcomes :
         LET res == GenVideoResume(AfterSeek(gen[t], o), thumbnailCache)
         IN  /\ gen' = [gen EXCEPT ![t] = res.call]
             /\ thumbnailCache' = res.tCache
    /\ UNCHANGED <<vimeoThumbnailCache, pool, videos, pre, prePc>>

\* (variant: the timer callback only cleans up)
TimeoutNoResolve(c) == [Cleanup(c) EXCEPT !.timer = "fired"]

\* lines 451-455: the timer callback
Timeout(c) ==
    Resolve([Cleanup(c) EXCEPT !.timer = "fired"], DEFAULT_THUMBNAIL, "timeout")

TimerFires(t) ==
    /\ gen[t].timer = "armed"
    /\ LET res == GenVideoResume(Timeout(gen[t]), thumbnailCache)
       IN  /\ gen' = [gen EXCEPT ![t] = res.call]
           /\ thumbnailCache' = res.tCache
    /\ UNCHANGED <<vimeoThumbnailCache, pool, videos, pre, prePc>>

\* getVimeoThumbnail's request of call t of generateVideoThumbnail ends
GenVimeoResponds(t) ==
    /\ gen[t].pc = "vimeoFetch"
    /\ \E r \in VimeoResponses :
         LET fin == VimeoFinish(gen[t], r, vimeoThumbnailCache)
             res == GenVimeoResume(fin.call, thumbnailCache)
         IN  /\ gen' = [gen EXCEPT ![t] = res.call]
             /\ vimeoThumbnailCache' = fin.vCache
             /\ thumbnailCache' = res.tCache
    /\ UNCHANGED <<pool, videos, pre, prePc>>

----------------------------------------------------------------------------
(* preloadThumbnails *)

CustomThumbnailUrl == "https://cdn.example.org/custom.jpg"

\* an element of videos; customThumbnailUrl is "" when the field is absent
Video(url, custom) == [url |-> url, customThumbnailUrl |-> custom]

\* lines 344-350: after await getVimeoThumbnail, in the same turn of the
\* event loop as its return
PreVimeoResume(c) ==
    IF c.pc # "vimeoRet"
    THEN c
    ELSE IF Truthy(c.val)
    THEN [c EXCEPT !.pc = "vimeoDecode", !.req = c.val]
    ELSE Returned(c, NoThumb, c.how)

\* lines 305-344: a videos.map closure up to its first await, or to its return
PreStart(video, tCache, vCache) ==
    LET url == video.url
        provider == getVideoProvider(url)
        thumbnail == getVideoThumbnail(url, tCache, vCache)
    IN  IF video.customThumbnailUrl # ""
        THEN At("customDecode", url, NoThumb, video.customThumbnailUrl, "")
        ELSE IF provider = NoProvider
        THEN At("done", url, NoThumb, "", "noProvider")
        ELSE IF MapHas(tCache, url)
        THEN At("done", url, NoThumb, "", "alreadyCached")
        ELSE IF provider \in {"youtube", "gdrive"}
        THEN IF Truthy(thumbnail)
             THEN At("thumbDecode", url, thumbnail, thumbnail, "")
             ELSE At("done", url, NoThumb, "", "underivable")
        ELSE IF provider = "vimeo"
        THEN PreVimeoResume(VimeoStart(Idle, url, vCache))
        ELSE At("done", url, NoThumb, "", "notPreloaded")

\* lines 303-362: the call; videos.map runs every closure up to its await
PreloadCall(vs) ==
    /\ prePc = "idle"
    /\ Cardinality({t \in DOMAIN gen : gen[t].pc # "idle"}) + Len(vs) + UrlCalls
           <= MaxCalls
    /\ Cardinality(pool \cup {vs[k].url : k \in DOMAIN vs}) <= MaxUrls
    /\ pool' = pool \cup {vs[k].url : k \in DOMAIN vs}
    /\ videos' = vs
    /\ pre' = [k \in DOMAIN vs |-> PreStart(vs[k], thumbnailCache, vimeoThumbnailCache)]
    /\ prePc' = "waiting"
    /\ UNCHANGED <<thumbnailCache, vimeoThumbnailCache, gen>>

\* (variant: a custom thumbnail that does not decode is cached as a failure)
CustomDecodeCachesFailure(k) ==
    /\ pre[k].pc = "customDecode"
    /\ \E ok \in BOOLEAN :
         /\ pre' = [pre EXCEPT ![k] =
                       Returned(pre[k], NoThumb,
                                IF ok THEN "customDecoded" ELSE "customFailed")]
         /\ thumbnailCache' = IF ok THEN thumbnailCache
                              ELSE MapSet(thumbnailCache, pre[k].url, DEFAULT_THUMBNAIL)
    /\ UNCHANGED <<vimeoThumbnailCache, pool, gen, videos, prePc>>

\* lines 309-315: after img.decode() of the custom thumbnail
CustomDecodeSettles(k) ==
    /\ pre[k].pc = "customDecode"
    /\ \E ok \in BOOLEAN :
         pre' = [pre EXCEPT ![k] =
                    Returned(pre[k], NoThumb,
                             IF ok THEN "customDecoded" ELSE "customFailed")]
    /\ UNCHANGED <<thumbnailCache, vimeoThumbnailCache, pool, gen, videos, prePc>>

\* (variant: a thumbnail that does not decode leaves the cache as it is)
DecodedFailureNotCached(c, ok, tCache) ==
    IF ok
    THEN [call |-> Returned(c, c.val, "decoded"),
          tCache |-> MapSet(tCache, c.url, c.val)]
    ELSE [call |-> Returned(c, DEFAULT_THUMBNAIL, "decodeFailed"),
          tCache |-> tCache]

\* lines 333-338 and 348-354: after img.decode() of the thumbnail c.val
Decoded(c, ok, tCache) ==
    IF ok
    THEN [call |-> Returned(c, c.val, "decoded"),
          tCache |-> MapSet(tCache, c.url, c.val)]
    ELSE [call |-> Returned(c, DEFAULT_THUMBNAIL, "decodeFailed"),
          tCache |-> MapSet(tCache, c.url, DEFAULT_THUMBNAIL)]

DecodeSettles(k) ==
    /\ pre[k].pc \in {"thumbDecode", "vimeoDecode"}
    /\ \E ok \in BOOLEAN :
         LET res == Decoded(pre[k], ok, thumbnailCache)
         IN  /\ pre' = [pre EXCEPT ![k] = res.call]
             /\ thumbnailCache' = res.tCache
    /\ UNCHANGED <<vimeoThumbnailCache, pool, gen, videos, prePc>>

\* getVimeoThumbnail's request of closure k ends
PreVimeoResponds(k) ==
    /\ pre[k].pc = "vimeoFetch"
    /\ \E r \in VimeoResponses :
         LET fin == VimeoFinish(pre[k], r, vimeoThumbnailCache)
         IN  /\ pre' = [pre EXCEPT ![k] = PreVimeoResume(fin.call)]
             /\ vimeoThumbnailCache' = fin.vCache
    /\ UNCHANGED <<thumbnailCache, pool, gen, videos, prePc>>

\* (variant: the call goes on as soon as one closure has settled)
PreAnySettled == \E k \in DOMAIN pre : pre[k].pc \in {"done", "rejected"}

\* line 362: Promise.allSettled(promises)
PreAllSettled == \A k \in DOMAIN pre : pre[k].pc \in {"done", "rejected"}

PreloadSettles ==
    /\ prePc = "waiting"
    /\ PreAllSettled
    /\ prePc' = "done"
    /\ UNCHANGED <<thumbnailCache, vimeoThumbnailCache, pool, gen, videos, pre>>

----------------------------------------------------------------------------
(* getVideoEmbedUrl.  The body of its try block ends in a return or in a   *)
(* throw; the catch of line 713 turns a throw into null.                   *)

Returns(provider, embedUrl) ==
    [kind |-> "return", provider |-> provider, embedUrl |-> embedUrl]

\* return null
ReturnsNull == Returns(NoProvider, "")

Throws == [kind |-> "throw", provider |-> NoProvider, embedUrl |-> ""]

\* pathname.split('/').pop() || ''
LastSegment(pathname) == Split(pathname, "/")[Len(Split(pathname, "/"))]

\* lines 595-602: the video id of a YouTube URL
YouTubeVideoId(urlObj) ==
    IF Includes(urlObj.hostname, "youtu.be") THEN From(urlObj.pathname, 2)
    ELSE IF SearchHas(urlObj.search, "v") THEN SearchGet(urlObj.search, "v")
    ELSE LastSegment(urlObj.pathname)

\* lines 603-609
YouTubeEmbed(videoId) ==
    IF videoId = "" THEN Throws
    ELSE Returns("youtube", "https://www.youtube.com/embed/" \o videoId)

\* lines 614-624, m being url.match(...)
VimeoEmbed(m) ==
    IF ~m.ok THEN Throws
    ELSE Returns("vimeo",
             "https://player.vimeo.com/video/" \o m.videoId
                 \o (IF m.hash # "" THEN "/" \o m.hash ELSE "")
                 \o "?h=" \o m.hash
                 \o "&badge=0&autopause=0&player_id=0&app_id=58479&autoplay=0&muted=0&controls=1&loop=0&title=0&byline=0&portrait=0&background=0&transparent=0")

\* lines 628-637, id being videoIdMatch?.[1]
XVideosEmbed(id) ==
    IF id = "" THEN Throws
    ELSE Returns("xvideos", "https://www.xvideos.com/embedframe/" \o SplitFirst(id, "/"))

\* lines 641-649
PornHubEmbed(viewkey) ==
    IF viewkey = "" THEN Throws
    ELSE Returns("pornhub", "https://www.pornhub.com/embed/" \o viewkey)

\* lines 653-661, id being match?.[1]
DriveEmbed(id) ==
    IF id = "" THEN Throws
    ELSE Returns("gdrive", "https://drive.google.com/file/d/" \o id \o "/preview")

\* lines 665-678, direct being the outcome of lines 665-673
DropboxEmbed(direct) ==
    IF ~direct.ok THEN Throws ELSE Returns("dropbox", direct.url)

\* pathname.split('/').filter(Boolean)
Segments(pathname) == SelectSeq(Split(pathname, "/"), LAMBDA part : part # "")

\* lines 691-700
TelegramEmbed(parts) ==
    IF Len(parts) < 2 THEN Throws
    ELSE Returns("telegram", "https://t.me/" \o parts[1] \o "/" \o parts[2])

\* encodeURIComponent on one character: the characters of the URLs of this
\* model that it escapes; it leaves letters, digits and - _ . as they are
Escape(c) ==
    CASE c = ":" -> "%3A"
      [] c = "/" -> "%2F"
      [] c = "?" -> "%3F"
      [] c = "=" -> "%3D"
      [] c = "&" -> "%26"
      [] c = "#" -> "%23"
      [] c = " " -> "%20"
      [] OTHER -> c

\* encodeURIComponent
RECURSIVE EncodeURIComponent(_)
EncodeURIComponent(s) ==
    IF s = "" THEN ""
    ELSE Escape(Char(s, 1)) \o EncodeURIComponent(From(s, 2))

\* lines 705-709
CatboxEmbed(url) ==
    Returns("catbox", "https://corsproxy.io/?" \o EncodeURIComponent(url))

\* lines 593-711: the branches on urlObj.hostname, in the order of the code
EmbedOfHost(url, urlObj, host) ==
    IF Includes(host, "youtube.com") \/ Includes(host, "youtu.be")
    THEN YouTubeEmbed(YouTubeVideoId(urlObj))
    ELSE IF Includes(host, "vimeo.com") THEN VimeoEmbed(VimeoMatch(url))
    ELSE IF Includes(host, "xvideos.com")
    THEN XVideosEmbed(XVideosIdMatch(urlObj.pathname))
    ELSE IF Includes(host, "pornhub.com")
    THEN PornHubEmbed(SearchGet(urlObj.search, "viewkey"))
    ELSE IF Includes(host, "drive.google.com") THEN DriveEmbed(DriveIdMatch(url))
    ELSE IF Includes(host, "dropbox.com") THEN DropboxEmbed(DropboxDirect(url))
    ELSE IF Includes(host, "terabox.com") THEN Returns("terabox", url)
    ELSE IF Includes(host, "t.me") THEN TelegramEmbed(Segments(urlObj.pathname))
    ELSE IF Includes(host, "catbox.moe") THEN CatboxEmbed(url)
    ELSE ReturnsNull

\* lines 590-711, urlObj being new URL(url), which may have thrown
EmbedOfUrl(url, urlObj) ==
    IF ~urlObj.ok THEN Throws ELSE EmbedOfHost(url, urlObj, urlObj.hostname)

\* lines 586-712: the try block
TryEmbed(url) ==
    IF url = "" THEN Throws ELSE EmbedOfUrl(url, ParseUrl(url))

\* lines 713-716: the catch
Caught(outcome) == IF outcome.kind = "throw" THEN ReturnsNull ELSE outcome

\* a getVideoEmbedUrl whose throws escape
getVideoEmbedUrlNoCatch(url) == TryEmbed(url)

\* lines 585-717
getVideoEmbedUrl(url) == Caught(TryEmbed(url))

\* (variant: the thumbnail cached for the url is returned as its embed URL)
EmbedCallCached(url) ==
    /\ input' = url
    /\ embedOut' = IF MapHas(thumbnailCache, url)
                   THEN Returns(getVideoProvider(url), thumbnailCache[url])
                   ELSE getVideoEmbedUrl(url)
    /\ providerOut' = IF url = input THEN providerOut ELSE "unasked"

\* a call getVideoProvider(url) returns
ProviderCall(url) ==
    /\ input' = url
    /\ providerOut' = getVideoProvider(url)
    /\ embedOut' = IF url = input THEN embedOut ELSE UrlQuietEmbed

\* a call getVideoEmbedUrl(url) returns
EmbedCall(url) ==
    /\ input' = url
    /\ embedOut' = getVideoEmbedUrl(url)
    /\ providerOut' = IF url = input THEN providerOut ELSE "unasked"

----------------------------------------------------------------------------
(* The callers: generateVideoThumbnail calls, overlapping or one after the *)
(* other, and one preloadThumbnails call; the calls and the elements of    *)
(* videos are MaxCalls together, and pool, the video URLs they were given, *)
(* has up to MaxUrls elements.                                             *)

ThumbUrls ==
    { "https://youtu.be/dQw4w9WgXcQ",
      "https://www.youtube.com/embed/dQw4w9WgXcQ",
      "https://vimeo.com/123456",
      "https://www.dropbox.com/s/abc/file.mp4?rlkey=XYZ&dl=0",
      "https://drive.google.com/file/d/1AbC/view",
      "not a url" }

VideoLists ==
    UNION {[1 .. n -> {Video(u, c) : u \in ThumbUrls, c \in {"", CustomThumbnailUrl}}] :
              n \in 0 .. (MaxCalls - UrlCalls
                               - Cardinality({t \in DOMAIN gen : gen[t].pc # "idle"}))}

\* nothing of the upload half is in use
UploadQuiet ==
    /\ files = <<>>
    /\ batchSize = 0
    /\ onProgress = FALSE
    /\ i = 0
    /\ upPc = "idle"
    /\ task = <<>>
    /\ batchPromises = <<>>
    /\ results = <<>>
    /\ events = <<>>

ThumbInit ==
    /\ UploadQuiet
    /\ UrlQuiet
    /\ CompressQuiet
    /\ thumbnailCache = <<>>
    /\ vimeoThumbnailCache = <<>>
    /\ pool = {}
    /\ gen = [t \in 1 .. MaxCalls |-> Idle]
    /\ videos = <<>>
    /\ pre = <<>>
    /\ prePc = "idle"

\* a caller passes url to getVideoProvider or to getVideoEmbedUrl, between
\* the blocks of the thumbnail calls
UrlCallStarts(url) ==
    /\ Cardinality({t \in DOMAIN gen : gen[t].pc # "idle"}) + Len(videos) + 1
           <= MaxCalls
    /\ Cardinality(pool \cup {url}) <= MaxUrls
    /\ pool' = pool \cup {url}

\* one block of a thumbnail call
ThumbStep ==
    \/ \E t \in DOMAIN gen : \E url \in ThumbUrls : \E provider \in Providers :
          GenCall(t, url, provider)
    \/ \E t \in DOMAIN gen : VideoError(t)
    \/ \E t \in DOMAIN gen : LoadedMetadata(t)
    \/ \E t \in DOMAIN gen : Seeked(t)
    \/ \E t \in DOMAIN gen : TimerFires(t)
    \/ \E t \in DOMAIN gen : GenVimeoResponds(t)
    \/ \E vs \in VideoLists : PreloadCall(vs)
    \/ \E k \in DOMAIN pre : CustomDecodeSettles(k)
    \/ \E k \in DOMAIN pre : DecodeSettles(k)
    \/ \E k \in DOMAIN pre : PreVimeoResponds(k)
    \/ PreloadSettles

ThumbNext ==
    /\ ThumbStep
    /\ UNCHANGED <<uploadVars, urlVars, compressVars>>

ThumbSpec == ThumbInit /\ [][ThumbNext]_vars

\* line 451: a timer that setTimeout has armed and nothing has cleared fires
ThumbLiveSpec ==
    ThumbSpec /\ \A t \in 1 .. MaxCalls :
                    WF_vars(TimerFires(t)
                                /\ UNCHANGED <<uploadVars, urlVars, compressVars>>)

\* the thumbnail calls with calls of getVideoProvider and getVideoEmbedUrl
\* on their URLs in between
ThumbUrlNext ==
    \/ /\ ThumbStep
       /\ UNCHANGED <<uploadVars, urlVars, compressVars>>
    \/ /\ \/ \E url \in ThumbUrls : UrlCallStarts(url) /\ ProviderCall(url)
          \/ \E url \in ThumbUrls : UrlCallStarts(url) /\ EmbedCall(url)
       /\ UNCHANGED <<uploadVars, compressVars, thumbnailCache,
                      vimeoThumbnailCache, gen, videos, pre, prePc>>

ThumbUrlSpec == ThumbInit /\ [][ThumbUrlNext]_vars

----------------------------------------------------------------------------
(* The callers of getVideoProvider and getVideoEmbedUrl on one url: the    *)
(* hosts of the providers, hosts of other domains, two of which hold the   *)
(* name of a provider host inside their own, and strings that are no URLs. *)

UrlHosts ==
    { "www.youtube.com", "youtu.be", "vimeo.com", "www.xvideos.com",
      "www.pornhub.com", "drive.google.com", "www.dropbox.com",
      "www.terabox.com", "t.me", "files.catbox.moe",
      "example.org", "notyoutube.com", "chat.me" }

UrlTails ==
    { "", "/", "/watch?v=dQw4w9WgXcQ", "/watch?v=", "/embed/dQw4w9WgXcQ",
      "/123456", "/123456/abcdef", "/video.abc123/title",
      "/view_video.php?viewkey=ph5", "/file/d/1AbC/view",
      "/s/abc/file.mp4?rlkey=XYZ&dl=0", "/s/abc/file.mp4?dl=0&rlkey=XYZ",
      "/s/abc/file.mp4?dl=0", "/s/abc/file.mp4?st=1&rlkey=XYZ&dl=0",
      "/channel/42", "/channel" }

UrlInputs ==
    {"https://" \o host \o tail : host \in UrlHosts, tail \in UrlTails}
        \cup {"", "not a url", "youtube.com/watch?v=dQw4w9WgXcQ"}

UrlInit ==
    /\ UploadQuiet
    /\ ThumbQuiet
    /\ CompressQuiet
    /\ input \in UrlInputs
    /\ providerOut = "unasked"
    /\ embedOut = UrlQuietEmbed

UrlNext ==
    /\ \/ ProviderCall(input)
       \/ EmbedCall(input)
    /\ UNCHANGED <<uploadVars, thumbVars, compressVars>>

UrlSpec == UrlInit /\ [][UrlNext]_vars

----------------------------------------------------------------------------
(* The callers of compressImage by itself *)

\* the arguments: the sizes of FileSizes, the default quality (line 48) and
\* two others, maxSizeMB around the sizes
Qualities == {600, 850, 1000}
MaxSizesMB == {1, 2, 3}

CompressInit ==
    /\ UploadQuiet
    /\ ThumbQuiet
    /\ UrlQuiet
    /\ cmp \in {CompressIdle(FileOf(size), quality, maxSizeMB) :
                   size \in FileSizes, quality \in Qualities, maxSizeMB \in MaxSizesMB}

CompressNext ==
    /\ \/ CompressCalled
       \/ ReaderEnds
       \/ ImageEnds
       \/ FirstBlobReady
       \/ SecondBlobReady
       \/ ImageErrorAfterCleanup
    /\ UNCHANGED <<uploadVars, thumbVars, urlVars>>

CompressSpec == CompressInit /\ [][CompressNext]_vars

----------------------------------------------------------------------------
(* Claims about uploadImagesInBatches, checked under UploadSpec *)

\* closures that called uploadToImgBB and have not returned yet
Unfinished == {g \in Indices : task[g].pc \in {"compress", "post", "settled"}}
Started == {g \in Indices : task[g].pc # "idle"}
Finished == {g \in Indices : task[g].pc \in {"ok", "fail"}}

\* the batch (0, 1, ...) that index g belongs to, for batchSize >= 1
BatchOf(g) == g \div batchSize

\* C1: with batchSize >= 1, at most batchSize uploads are started and not
\* yet settled, and no upload of a later batch has started while an upload
\* of an earlier batch has not settled.
C1_BatchLimit ==
    batchSize >= 1 =>
        /\ Cardinality(Unfinished) <= batchSize
        /\ \A g \in Indices : \A h \in Started :
              BatchOf(g) < BatchOf(h) => g \in Finished

\* the limit is reached in the first batch while the next batch waits
C1_Witness ==
    /\ batchSize = 2
    /\ Len(files) = 3
    /\ task[0].pc = "post"
    /\ task[1].pc = "compress"
    /\ task[2].pc = "idle"

\* C2: uploadImagesInBatches never rejects; when it returns, results has
\* files.length elements, every file's upload was attempted, and element g
\* is the URL the upload of files[g] gave, or null when that upload failed.
C2_ResultsPerFile ==
    /\ upPc # "rejected"
    /\ \A g \in Indices : task[g].pc # "threw"
    /\ upPc = "done" =>
          /\ DOMAIN results = Indices
          /\ \A g \in Indices :
                /\ g \in Finished
                /\ results[g] = IF task[g].out.kind = "url"
                                THEN HostedUrl(g)
                                ELSE Null

\* a failure in the first batch, successes beside it and in the next batch
C2_Witness ==
    /\ upPc = "done"
    /\ batchSize = 2
    /\ Len(files) = 3
    /\ results[0] = Null
    /\ results[1] = HostedUrl(1)
    /\ results[2] = HostedUrl(2)

IsPrefix(s, t) == Len(s) <= Len(t) /\ \A k \in 1 .. Len(s) : s[k] = t[k]

Terminals == {Progress(100, "completed"), Progress(0, "error")}

\* C3: with a progress callback, index g sees (g, 0, uploading) once and
\* before uploadToImgBB is called for it, then one terminal status and
\* nothing after it; after the return the terminal status is completed
\* exactly when results[g] is a URL and error exactly when it is null.
C3_ProgressProtocol ==
    onProgress =>
        \A g \in Indices :
            /\ \E t \in Terminals :
                  IsPrefix(events[g], <<Progress(0, "uploading"), UploadCall, t>>)
            /\ upPc = "done" =>
                  /\ Len(events[g]) = 3
                  /\ events[g][3] = Progress(100, "completed")
                        <=> results[g].kind = "url"
                  /\ events[g][3] = Progress(0, "error") <=> results[g] = Null

C3_Witness ==
    /\ upPc = "done"
    /\ onProgress
    /\ Len(files) = 3
    /\ batchSize = 2
    /\ events[0][3] = Progress(100, "completed")
    /\ events[1][3] = Progress(0, "error")
    /\ events[2][3] = Progress(100, "completed")

\* uploadToImgBB's promise for the file at index g settles in this step
UploadSettles(g) == task'[g].pc = "settled" /\ task[g].pc # "settled"

\* C17: uploadToImgBB resolves with a URL only from an issued POST (whose
\* response was OK and held the URL field); in every other case it rejects
\* with an error that carries a message, it never resolves with null, a
\* missing file is rejected at once, and no POST is issued for a file above
\* the maximum size.
C17_UploadOutcome ==
    [][\A g \in DOMAIN task \cap DOMAIN task' :
          /\ UploadSettles(g) =>
                /\ task'[g].out.kind \in {"url", "rejected"}
                /\ task'[g].out.kind = "url" =>
                      task[g].pc = "post" /\ task'[g].out = HostedUrl(g)
                /\ task'[g].out.kind = "rejected" => task'[g].out.message # ""
          /\ (task[g].pc = "idle" /\ task'[g].pc # "idle" /\ ~files[g + 1].present) =>
                UploadSettles(g) /\ task'[g].out.kind = "rejected"
          /\ task'[g].pc = "post" =>
                /\ task'[g].file.present
                /\ task'[g].file.size <= MAX_FILE_SIZE]_vars

C17_Witness ==
    \E g, h \in DOMAIN task :
        /\ task[g].out = HostedUrl(g)
        /\ files[g + 1].size > MB
        /\ files[h + 1].size > MAX_FILE_SIZE
        /\ task[h].out.kind = "rejected"
        /\ task[h].out.message = "El archivo es demasiado grande. Maximo 10MB"

\* the loop variable has gone below zero as far as the model follows it
LoopCut == upPc = "pause" /\ i + batchSize < 0 - MaxPauses

\* C22: for every file list and every batchSize, 0 and negative ones
\* included, when every upload settles and every pause elapses, a call of
\* uploadImagesInBatches that is waiting for a batch or pausing eventually
\* returns.
C22_BatchesTerminate ==
    [](upPc \in {"await", "pause"} => <>(upPc = "done" \/ LoopCut))

----------------------------------------------------------------------------
(* Claim about compressImage, checked under CompressSpec *)

\* C19: compressImage resolves with the very file it was given, without
\* reading it, when file.size <= maxSizeMB megabytes; for a larger file it
\* encodes once at the given quality and at most once more at the reduced
\* quality, both times from the decoded original image, and its promise
\* settles once: with a JPEG-typed file, or rejected.
C19_CompressOnce ==
    [][ /\ (cmp.file.size <= cmp.maxSizeMB * MB /\ cmp'.pc # "idle") =>
              /\ cmp'.out = SameFile(cmp.file)
              /\ ~cmp'.read
              /\ cmp'.encodes = <<>>
        /\ Len(cmp'.encodes) <= 2
        /\ \A k \in DOMAIN cmp'.encodes :
              /\ cmp'.encodes[k].from = "img"
              /\ cmp'.encodes[k].quality =
                    IF k = 1 THEN cmp.quality ELSE Max(500, (cmp.quality * 7) \div 10)
        /\ cmp.out.state # "pending" => cmp'.out = cmp.out
        /\ cmp'.pc = "over" => cmp'.out.state \in {"fulfilled", "rejected"}
        /\ (cmp'.out.state = "fulfilled" /\ cmp.file.size > cmp.maxSizeMB * MB) =>
              /\ cmp'.out.type = "image/jpeg"
              /\ ~cmp'.out.same
              /\ Len(cmp'.encodes) >= 1
        /\ cmp'.out.state # "pending" =>
              [ok |-> cmp'.out.state = "fulfilled", file |-> cmp'.out.file]
                  \in CompressImage(cmp.file, cmp.maxSizeMB) ]_vars

C19_Witness ==
    /\ cmp.pc = "over"
    /\ Len(cmp.encodes) = 2
    /\ cmp.out.state = "fulfilled"
    /\ cmp.out.file = cmp.blob
    /\ cmp.calls = 2

----------------------------------------------------------------------------
(* Claims about generateVideoThumbnail, getVimeoThumbnail and              *)
(* preloadThumbnails, checked under ThumbSpec and ThumbLiveSpec            *)

\* call t of generateVideoThumbnail starts, or returns, in this step
GenStarts(t) == gen[t].pc = "idle" /\ gen'[t].pc # "idle"
GenReturns(t) == gen[t].pc # "done" /\ gen'[t].pc = "done"

\* how a call that did not resolve a thumbnail came to its value
VimeoFailureHows == {"vimeoInvalid", "vimeoFailed"}
VideoFailureHows == {"videoError", "timeout", "canvasError"}
FailureHows ==
    VimeoFailureHows \cup VideoFailureHows \cup {"badUrl", "underivable"}

\* the thumbnails a successful Vimeo resolution can give
ResolvedVimeoThumbnails == {Replace(r, "_640", "_1920") : r \in VimeoThumbnails}

\* C4: when a call generateVideoThumbnail(url, provider) returns v, for any
\* provider and also when v is the default thumbnail of a failed
\* resolution, thumbnailCache holds v for url.
C4_ReturnedIsCached ==
    [][\A t \in DOMAIN gen :
          GenReturns(t) =>
              MapGet(thumbnailCache', gen'[t].url) = gen'[t].val]_vars

\* C5, as claimed: once vimeoThumbnailCache holds the thumbnail of a
\* successful resolution for url, a later call of generateVideoThumbnail
\* that is answered from the caches sends no request and returns that
\* thumbnail.
C5_SameThumbnailLater ==
    [][\A t \in DOMAIN gen :
          ( /\ GenStarts(t)
            /\ Truthy(MapGet(vimeoThumbnailCache, gen'[t].url))
            /\ gen'[t].how \in {"cache", "vimeoCached"} )
          => /\ gen'[t].pc = "done"
             /\ gen'[t].val = vimeoThumbnailCache[gen'[t].url]]_vars

\* C5, amended: once vimeoThumbnailCache holds a thumbnail for url, no later
\* call of generateVideoThumbnail and no later closure of preloadThumbnails
\* sends a Vimeo request for url; getVimeoThumbnail returns the entry of
\* vimeoThumbnailCache, and generateVideoThumbnail returns the entry of
\* thumbnailCache when there is one (which can be the default thumbnail)
\* and otherwise what getVimeoThumbnail returned, which it then caches.
C5_CachedVimeoNoRequest ==
    [][ /\ \A t \in DOMAIN gen :
              ( /\ GenStarts(t)
                /\ Truthy(MapGet(vimeoThumbnailCache, gen'[t].url)) )
              => /\ gen'[t].pc # "vimeoFetch"
                 /\ gen'[t].how \notin VimeoFailureHows \cup {"vimeoFetched"}
                 /\ gen'[t].how = "vimeoCached" =>
                       /\ gen'[t].pc = "done"
                       /\ gen'[t].val = vimeoThumbnailCache[gen'[t].url]
                       /\ MapGet(thumbnailCache', gen'[t].url) = gen'[t].val
                 /\ gen'[t].how = "cache" =>
                       /\ gen'[t].pc = "done"
                       /\ gen'[t].val = thumbnailCache[gen'[t].url]
        /\ (prePc = "idle" /\ prePc' # "idle") =>
              \A k \in DOMAIN pre' :
                  Truthy(MapGet(vimeoThumbnailCache, pre'[k].url))
                  => /\ pre'[k].pc # "vimeoFetch"
                     /\ pre'[k].how \notin VimeoFailureHows \cup {"vimeoFetched"}
                     /\ pre'[k].pc = "vimeoDecode" =>
                           pre'[k].val = vimeoThumbnailCache[pre'[k].url]
      ]_vars

\* a call answered by vimeoThumbnailCache while thumbnailCache has no entry
C5_Witness ==
    \E t \in DOMAIN gen :
        /\ gen[t].pc = "done"
        /\ gen[t].how = "vimeoCached"
        /\ gen[t].val = MapGet(vimeoThumbnailCache, gen[t].url)

\* C6: when generateVideoThumbnail(url, 'vimeo') does not resolve (no
\* match of the pattern, fetch rejects, status not OK, no thumbnail field)
\* it returns the default thumbnail, sets thumbnailCache[url] to it and
\* leaves vimeoThumbnailCache as it was; vimeoThumbnailCache only ever
\* holds thumbnails of successful resolutions.
C6_VimeoFailure ==
    [][ /\ \A t \in DOMAIN gen :
              (GenReturns(t) /\ gen'[t].how \in VimeoFailureHows)
              => /\ gen'[t].val = DEFAULT_THUMBNAIL
                 /\ MapGet(thumbnailCache', gen'[t].url) = DEFAULT_THUMBNAIL
                 /\ vimeoThumbnailCache' = vimeoThumbnailCache
        /\ \A u \in DOMAIN vimeoThumbnailCache' :
              vimeoThumbnailCache'[u] \in ResolvedVimeoThumbnails
      ]_vars

\* a failed request has been answered with the default thumbnail
C6_Witness ==
    \E t \in DOMAIN gen :
        /\ gen[t].pc = "done"
        /\ gen[t].how = "vimeoFailed"
        /\ gen[t].val = DEFAULT_THUMBNAIL
        /\ MapGet(thumbnailCache, gen[t].url) = DEFAULT_THUMBNAIL
        /\ ~MapHas(vimeoThumbnailCache, gen[t].url)

\* C7: a call of generateVideoThumbnail with provider dropbox or catbox on
\* an uncached URL returns, at the latest when its timer fires: while it
\* waits its timer is armed, and the step that fires the timer ends it.
\* When the timer fires or an error comes before a frame is exported the
\* value is the default thumbnail; the value is written to thumbnailCache
\* under the input URL; no call creates a video element for a URL that
\* thumbnailCache holds.
C7_VideoSettles ==
    /\ [][\A t \in DOMAIN gen :
             /\ gen'[t].pc = "video" =>
                   gen'[t].timer = "armed" /\ gen'[t].inDom
             /\ (gen[t].pc = "video" /\ gen'[t].pc # "video") =>
                   /\ gen'[t].pc = "done"
                   /\ gen'[t].how \in VideoFailureHows \cup {"frame"}
                   /\ gen'[t].how \in VideoFailureHows =>
                         gen'[t].val = DEFAULT_THUMBNAIL
                   /\ MapGet(thumbnailCache', gen'[t].url) = gen'[t].val
             /\ (GenStarts(t) /\ gen'[t].pc = "video") =>
                   ~Truthy(MapGet(thumbnailCache, gen'[t].url))
             /\ (GenStarts(t) /\ Truthy(MapGet(thumbnailCache, gen'[t].url))) =>
                   /\ gen'[t].pc = "done"
                   /\ gen'[t].how = "cache"
                   /\ gen'[t].val = thumbnailCache[gen'[t].url]
          ]_vars
    /\ \A t \in 1 .. MaxCalls : (gen[t].pc = "video") ~> (gen[t].pc = "done")

\* the timer ended a call that had seen loadedmetadata but not seeked, and
\* a later call for the same URL was answered from thumbnailCache
C7_Witness ==
    \E t, later \in DOMAIN gen :
        /\ gen[t].pc = "done"
        /\ gen[t].how = "timeout"
        /\ gen[t].val = DEFAULT_THUMBNAIL
        /\ gen[later].pc = "done"
        /\ gen[later].how = "cache"
        /\ gen[later].url = gen[t].url
        /\ gen[later].val = DEFAULT_THUMBNAIL

\* C8: generateVideoThumbnail never rejects and never returns null; what it
\* returns is a thumbnail string, the default thumbnail when the resolution
\* failed (invalid URL, failed request, no canvas context, export error,
\* video error, timeout).
C8_NeverRejects ==
    \A t \in DOMAIN gen :
        /\ gen[t].pc # "rejected"
        /\ gen[t].pc = "done" =>
              /\ Truthy(gen[t].val)
              /\ gen[t].how \in FailureHows => gen[t].val = DEFAULT_THUMBNAIL

\* a Dropbox URL that new URL() rejects, and a Vimeo URL without an id
C8_Witness ==
    \E t, other \in DOMAIN gen :
        /\ gen[t].pc = "done"
        /\ gen[t].how = "badUrl"
        /\ gen[t].val = DEFAULT_THUMBNAIL
        /\ gen[other].pc = "done"
        /\ gen[other].how = "vimeoInvalid"
        /\ gen[other].val = DEFAULT_THUMBNAIL

\* C9: once thumbnailCache or vimeoThumbnailCache holds a value for a URL,
\* no later write changes that value, whatever calls overlap.
C9_WriteOnce ==
    [][ /\ \A u \in DOMAIN thumbnailCache :
              MapGet(thumbnailCache', u) = thumbnailCache[u]
        /\ \A u \in DOMAIN vimeoThumbnailCache :
              MapGet(vimeoThumbnailCache', u) = vimeoThumbnailCache[u]
      ]_vars

\* C10: preloadThumbnails never rejects and goes on only when every closure
\* of videos.map has settled; no closure rejects; a closure that waits can
\* take its next step whatever its siblings did, and the closure whose
\* thumbnail decoded has cached it, whether or not a sibling failed.
C10_PreloadAllSettled ==
    /\ prePc \in {"idle", "waiting", "done"}
    /\ prePc = "done" => \A k \in DOMAIN pre : pre[k].pc = "done"
    /\ \A k \in DOMAIN pre :
          /\ pre[k].pc # "rejected"
          /\ pre[k].pc = "customDecode" => ENABLED CustomDecodeSettles(k)
          /\ pre[k].pc \in {"thumbDecode", "vimeoDecode"} => ENABLED DecodeSettles(k)
          /\ pre[k].pc = "vimeoFetch" => ENABLED PreVimeoResponds(k)
          /\ (pre[k].pc = "done" /\ pre[k].how = "decoded") =>
                Truthy(MapGet(thumbnailCache, pre[k].url))

\* one video's request failed, the other video's thumbnail was cached
C10_Witness ==
    /\ prePc = "done"
    /\ \E k, sibling \in DOMAIN pre :
          /\ pre[k].how = "vimeoFailed"
          /\ ~MapHas(thumbnailCache, pre[k].url)
          /\ pre[sibling].how = "decoded"
          /\ pre[sibling].url # pre[k].url
          /\ thumbnailCache[pre[sibling].url] = pre[sibling].val

\* closure k of preloadThumbnails returns in this step
PreReturns(k) ==
    /\ pre'[k].pc = "done"
    /\ k \in DOMAIN pre => pre[k].pc # "done"

\* C11: in preloadThumbnails, when the Vimeo path of a video without custom
\* thumbnail and without thumbnailCache entry fails (the request of
\* getVimeoThumbnail fails, or the thumbnail does not decode), the closure
\* ends with
\* thumbnailCache[url] = the default thumbnail.
C11_PreloadVimeoFailureCached ==
    [][\A k \in DOMAIN pre' :
          ( /\ PreReturns(k)
            /\ \/ pre'[k].how = "vimeoFailed"
               \/ /\ pre'[k].how = "decodeFailed"
                  /\ k \in DOMAIN pre
                  /\ pre[k].pc = "vimeoDecode" )
          => MapGet(thumbnailCache', pre'[k].url) = DEFAULT_THUMBNAIL]_vars

\* C12: in preloadThumbnails the closure of an entry with a custom thumbnail
\* URL only decodes that URL: it never classifies the video URL, never
\* sends a Vimeo request, and no step of it writes thumbnailCache or
\* vimeoThumbnailCache, whether the decode succeeds or fails.
C12_CustomThumbnailNoWrite ==
    [][\A k \in DOMAIN pre' :
          videos'[k].customThumbnailUrl # "" =>
              /\ pre'[k].pc \in {"customDecode", "done"}
              /\ pre'[k].pc = "customDecode" =>
                    pre'[k].req = videos'[k].customThumbnailUrl
              /\ pre'[k].how \in {"", "customDecoded", "customFailed"}
              /\ pre'[k].val = NoThumb
              /\ (k \notin DOMAIN pre \/ pre[k] # pre'[k]) =>
                    /\ thumbnailCache' = thumbnailCache
                    /\ vimeoThumbnailCache' = vimeoThumbnailCache]_vars

\* the custom thumbnail of a Vimeo video did not decode; nothing is cached
C12_Witness ==
    /\ prePc = "done"
    /\ \E k \in DOMAIN pre :
          /\ videos[k].customThumbnailUrl # ""
          /\ getVideoProvider(videos[k].url) = "vimeo"
          /\ pre[k].how = "customFailed"
          /\ thumbnailCache = <<>>
          /\ vimeoThumbnailCache = <<>>

PreStarts(k) == k \notin DOMAIN pre

\* closure k of preloadThumbnails runs a block in this step
PreActs(k) == PreStarts(k) \/ pre[k] # pre'[k]

\* C20: in preloadThumbnails, for an entry without custom thumbnail: when
\* thumbnailCache has the URL as the closure runs, the closure ends at once,
\* without a request and without a cache write; otherwise, for a YouTube or
\* Google Drive URL with a derivable thumbnail, the closure decodes the
\* derived thumbnail and ends with thumbnailCache[url] = that thumbnail if it
\* decodes and = the default thumbnail if it does not; for a provider other
\* than youtube, gdrive and vimeo the closure ends at once and writes nothing.
C20_PreloadDerived ==
    [][\A k \in DOMAIN pre' :
          LET url == videos'[k].url
              provider == getVideoProvider(url)
              derived == getVideoThumbnail(url, thumbnailCache, vimeoThumbnailCache)
          IN  videos'[k].customThumbnailUrl = "" =>
                /\ (PreStarts(k) /\ MapHas(thumbnailCache, url)) =>
                      /\ pre'[k].pc = "done"
                      /\ pre'[k].req = ""
                      /\ thumbnailCache' = thumbnailCache
                      /\ vimeoThumbnailCache' = vimeoThumbnailCache
                /\ ( /\ PreStarts(k)
                     /\ ~MapHas(thumbnailCache, url)
                     /\ provider \in {"youtube", "gdrive"}
                     /\ Truthy(derived) ) =>
                      /\ pre'[k].pc = "thumbDecode"
                      /\ pre'[k].req = derived
                /\ (~PreStarts(k) /\ pre[k].pc = "thumbDecode" /\ PreReturns(k)) =>
                      /\ pre'[k].how \in {"decoded", "decodeFailed"}
                      /\ MapGet(thumbnailCache', url) =
                            IF pre'[k].how = "decoded"
                            THEN getVideoThumbnail(url, <<>>, <<>>)
                            ELSE DEFAULT_THUMBNAIL
                /\ (PreActs(k) /\ provider \notin {"youtube", "gdrive", "vimeo"}) =>
                      /\ PreStarts(k)
                      /\ pre'[k].pc = "done"
                      /\ pre'[k].req = ""
                      /\ thumbnailCache' = thumbnailCache
                      /\ vimeoThumbnailCache' = vimeoThumbnailCache]_vars

C20_Witness ==
    /\ prePc = "done"
    /\ \E k, m \in DOMAIN pre :
          /\ videos[k].customThumbnailUrl = ""
          /\ videos[m].customThumbnailUrl = ""
          /\ getVideoProvider(videos[k].url) = "gdrive"
          /\ pre[k].how = "decoded"
          /\ thumbnailCache[videos[k].url] = DriveThumbnail("1AbC")
          /\ getVideoProvider(videos[m].url) = "youtube"
          /\ pre[m].how = "decodeFailed"
          /\ thumbnailCache[videos[m].url] = DEFAULT_THUMBNAIL

----------------------------------------------------------------------------
(* Claims about getVideoProvider and getVideoEmbedUrl, checked under       *)
(* UrlSpec                                                                 *)

EndsWith(s, t) == Len(t) <= Len(s) /\ From(s, Len(s) - Len(t) + 1) = t

\* host is the domain or a name under it
InDomain(host, domain) == host = domain \/ EndsWith(host, "." \o domain)

\* the provider a hostname belongs to
ExpectedProvider(host) ==
    IF InDomain(host, "youtube.com") \/ InDomain(host, "youtu.be") THEN "youtube"
    ELSE IF InDomain(host, "vimeo.com") THEN "vimeo"
    ELSE IF InDomain(host, "xvideos.com") THEN "xvideos"
    ELSE IF InDomain(host, "pornhub.com") THEN "pornhub"
    ELSE IF InDomain(host, "drive.google.com") THEN "gdrive"
    ELSE IF InDomain(host, "dropbox.com") THEN "dropbox"
    ELSE IF InDomain(host, "terabox.com") THEN "terabox"
    ELSE IF InDomain(host, "t.me") THEN "telegram"
    ELSE IF InDomain(host, "catbox.moe") THEN "catbox"
    ELSE NoProvider

\* C13: getVideoProvider returns the provider of the URL's hostname when the
\* hostname is a supported provider host, and null for every other hostname
\* (one that only holds 't.me' or 'youtube.com' inside the name of another
\* domain included) and for every empty or unparsable string.
C13_ProviderByHost ==
    providerOut # "unasked" =>
        providerOut = IF ParseUrl(input).ok
                      THEN ExpectedProvider(ParseUrl(input).hostname)
                      ELSE NoProvider

\* the provider-specific field that getVideoEmbedUrl needs is not in the URL
MissingField(url, urlObj, provider) ==
    \/ /\ provider = "youtube"
       /\ IF Includes(urlObj.hostname, "youtu.be") THEN urlObj.pathname = "/"
          ELSE IF SearchHas(urlObj.search, "v") THEN SearchGet(urlObj.search, "v") = ""
          ELSE EndsWith(urlObj.pathname, "/")
    \/ provider = "vimeo" /\ ~VimeoMatch(url).ok
    \/ provider = "xvideos" /\ XVideosIdMatch(urlObj.pathname) = ""
    \/ provider = "pornhub" /\ SearchGet(urlObj.search, "viewkey") = ""
    \/ provider = "gdrive" /\ DriveIdMatch(url) = ""
    \/ provider = "telegram" /\ Len(Segments(urlObj.pathname)) < 2

\* the URLs for which getVideoEmbedUrl has nothing to return
NoEmbed(url) ==
    \/ url = ""
    \/ ~ParseUrl(url).ok
    \/ getVideoProvider(url) = NoProvider
    \/ MissingField(url, ParseUrl(url), getVideoProvider(url))

\* C14: no exception escapes getVideoEmbedUrl: every call returns a
\* {provider, embedUrl} pair or null, and it returns null when the URL is
\* empty, unparsable, of no known provider, or without the field its provider
\* needs (YouTube video id, Vimeo numeric id, XVideos id segment, PornHub
\* viewkey, Google Drive /d/<id> segment, two Telegram path segments).
C14_EmbedNeverThrows ==
    embedOut.kind # "unasked" =>
        /\ embedOut.kind = "return"
        /\ embedOut.provider \in Providers \cup {NoProvider}
        /\ NoEmbed(input) => embedOut = ReturnsNull

C14_Witness ==
    /\ embedOut = ReturnsNull
    /\ ParseUrl(input).ok
    /\ getVideoProvider(input) = "pornhub"
    /\ MissingField(input, ParseUrl(input), "pornhub")
    /\ TryEmbed(input).kind = "throw"

\* C15: for a Dropbox URL with an rlkey query parameter, wherever rlkey
\* stands among the parameters, getVideoEmbedUrl returns the URL on
\* dl.dropboxusercontent.com with the same path and the query
\* rlkey=<the rlkey of the URL>&raw=1.
C15_DropboxRlkeyKept ==
    ( /\ embedOut.kind # "unasked"
      /\ ParseUrl(input).ok
      /\ InDomain(ParseUrl(input).hostname, "dropbox.com")
      /\ SearchGet(ParseUrl(input).search, "rlkey") # "" )
    => embedOut =
          Returns("dropbox",
                  "https://dl.dropboxusercontent.com" \o ParseUrl(input).pathname
                      \o "?rlkey=" \o SearchGet(ParseUrl(input).search, "rlkey")
                      \o "&raw=1")

----------------------------------------------------------------------------
(* Claim about getVideoProvider and getVideoEmbedUrl among the thumbnail   *)
(* calls, checked under ThumbUrlSpec                                       *)

EmbeddedVideoId(embedUrl) ==
    From(embedUrl, Len("https://www.youtube.com/embed/") + 1)

\* C21: when getVideoEmbedUrl has returned the YouTube embed of a video id
\* for a URL (the id of the youtu.be path, of the query parameter v or of
\* the last path segment), a generateVideoThumbnail call that derives the
\* thumbnail of the same URL with getVideoThumbnail returns
\* https://img.youtube.com/vi/{id}/maxresdefault.jpg for that id and caches
\* it under the URL, not the default.
C21_YouTubeIdsAgree ==
    [][ \A t \in DOMAIN gen :
          ( /\ embedOut.kind = "return"
            /\ embedOut.provider = "youtube"
            /\ embedOut' = embedOut
            /\ gen[t].pc = "idle"
            /\ gen'[t].pc = "done"
            /\ gen'[t].how \in {"derived", "underivable"}
            /\ gen'[t].url = input )
          => /\ gen'[t].val = YouTubeThumbnail(EmbeddedVideoId(embedOut.embedUrl))
             /\ MapGet(thumbnailCache', input) = gen'[t].val ]_vars

====
